---- MODULE Spec2Model ----
(***************************************************************************)
(* Model of the tenant deletion workflow of DeleteUser/delete_tenant.py.   *)
(*                                                                         *)
(* The world is the backend store (row counts of every table of            *)
(* TABLES_TO_DELETE that are associated with the tenant, and the retention *)
(* table sell_local_deleted_tenants), the routing service (the domain      *)
(* binding), object storage (the files under gallery/<tenant-id>) and the  *)
(* identity provider (the auth user).  One invocation of main() is a run:  *)
(* it walks lookup, confirmation, archive_tenant, remove_vercel_domain,    *)
(* delete_storage_files, delete_database_records and delete_auth_user.     *)
(* Every external call either returns or raises; the trace records each    *)
(* call and each per-table report line in the order the code issues them.  *)
(*                                                                         *)
(* The campaign sender of emails/send.py is modelled beside it: texts are  *)
(* sequences of tokens (a subject marker, literal markup, placeholders),   *)
(* and one call of send_campaign() loads the contacts and the template and *)
(* renders and sends one email per contact.                                *)
(***************************************************************************)
EXTENDS Integers, Sequences, FiniteSets, TLC

VARIABLES
    db,             \* table name -> number of rows associated with the tenant
    retention,      \* rows of sell_local_deleted_tenants for the tenant id
    domainBound,    \* the routing service holds the tenant's domain
    files,          \* objects under gallery/<tenant-id> in bucket images
    identity,       \* the auth user of tenant.user_id exists
    tenantRow,      \* the fields of the tenant's row (domain, user_id, ...)
    creds,          \* VERCEL_API_TOKEN and SELLLOCAL_VERCEL_PROJECT_ID are set
    pc,             \* position of main()
    args,           \* parsed command line of the current run
    tenant,         \* main's local: the row returned by lookup_tenant, or None
    subscriber_ids, \* delete_database_records' local: number of ids fetched
    pickup_ids,     \* delete_database_records' local: number of ids fetched
    i,              \* index of the loop over TABLES_TO_DELETE (0: not started)
    trace,          \* calls and report lines of the current run, in order
    exit,           \* exit status of the current run (-1 while running)
    runs,           \* number of the current invocation
    world0,         \* the world when the current run started
    prev,           \* how the previous invocation ended
    template_file,  \* send.py: the content of the campaign's template.html
    contacts_file,  \* send.py: the rows of the campaign's contacts.csv
    send_dry_run,   \* send.py: the --dry-run flag
    spc,            \* send.py: position of send_campaign()
    contacts,       \* send_campaign's local: the loaded contact rows
    subject,        \* send_campaign's local: the subject of the template
    html_template,  \* send_campaign's local: the template after the marker
    cursor,         \* index of the loop over contacts
    attempts,       \* the emails handed to the email API or previewed
    sent,           \* send_campaign's counter of sent emails
    failed,         \* send_campaign's counter of failed sends
    sexit           \* exit status of send.py (-1 while running)

sendVars == <<template_file, contacts_file, send_dry_run, spc, contacts,
              subject, html_template, cursor, attempts, sent, failed, sexit>>

vars == <<db, retention, domainBound, files, identity, tenantRow, creds, pc,
          args, tenant, subscriber_ids, pickup_ids, i, trace, exit, runs,
          world0, prev, sendVars>>

worldVars == <<db, retention, domainBound, files, identity>>
envVars == <<tenantRow, creds>>
loopVars == <<subscriber_ids, pickup_ids, i>>

----------------------------------------------------------------------------
(* Bounds *)

MaxRows == 1
MaxFiles == 1
MaxRuns == 2
MaxTemplateLen == 3
MaxContacts == 2

----------------------------------------------------------------------------
(* Configuration *)

\* The list with the subscribers entry moved above the newsletter sends.
TablesSubscribersFirst ==
    << [table |-> "sell_local_newsletter_subscribers", column |-> "tenant_id", mode |-> "direct"],
       [table |-> "sell_local_newsletter_sends", column |-> "subscriber_id", mode |-> "via_subscribers"],
       [table |-> "sell_local_pickup_products", column |-> "pickup_id", mode |-> "via_pickups"],
       [table |-> "sell_local_pending_orders", column |-> "tenant_id", mode |-> "direct"],
       [table |-> "sell_local_orders", column |-> "tenant_id", mode |-> "direct"],
       [table |-> "sell_local_pickups", column |-> "tenant_id", mode |-> "direct"],
       [table |-> "sell_local_recipe_purchases", column |-> "tenant_id", mode |-> "direct"],
       [table |-> "sell_local_recipes", column |-> "tenant_id", mode |-> "direct"],
       [table |-> "sell_local_menu_inventory", column |-> "tenant_id", mode |-> "direct"],
       [table |-> "sell_local_menu_schedule", column |-> "tenant_id", mode |-> "direct"],
       [table |-> "sell_local_categories", column |-> "tenant_id", mode |-> "direct"],
       [table |-> "sell_local_products", column |-> "tenant_id", mode |-> "direct"],
       [table |-> "sell_local_settings", column |-> "tenant_id", mode |-> "direct"],
       [table |-> "sell_local_store_settings", column |-> "tenant_id", mode |-> "direct"],
       [table |-> "sell_local_affiliate_links", column |-> "tenant_id", mode |-> "direct"],
       [table |-> "sell_local_social_links", column |-> "tenant_id", mode |-> "direct"],
       [table |-> "sell_local_hero_content", column |-> "tenant_id", mode |-> "direct"],
       [table |-> "sell_local_about_content", column |-> "tenant_id", mode |-> "direct"],
       [table |-> "sell_local_branding", column |-> "tenant_id", mode |-> "direct"],
       [table |-> "sell_local_site_theme", column |-> "tenant_id", mode |-> "direct"],
       [table |-> "sell_local_notification_banner", column |-> "tenant_id", mode |-> "direct"],
       [table |-> "sell_local_audit_log", column |-> "tenant_id", mode |-> "direct"],
       [table |-> "sell_local_tenants", column |-> "id", mode |-> "direct"] >>

\* The list with the tenant row moved above the audit log.
TablesTenantEarly ==
    << [table |-> "sell_local_newsletter_sends", column |-> "subscriber_id", mode |-> "via_subscribers"],
       [table |-> "sell_local_newsletter_subscribers", column |-> "tenant_id", mode |-> "direct"],
       [table |-> "sell_local_pickup_products", column |-> "pickup_id", mode |-> "via_pickups"],
       [table |-> "sell_local_pending_orders", column |-> "tenant_id", mode |-> "direct"],
       [table |-> "sell_local_orders", column |-> "tenant_id", mode |-> "direct"],
       [table |-> "sell_local_pickups", column |-> "tenant_id", mode |-> "direct"],
       [table |-> "sell_local_recipe_purchases", column |-> "tenant_id", mode |-> "direct"],
       [table |-> "sell_local_recipes", column |-> "tenant_id", mode |-> "direct"],
       [table |-> "sell_local_menu_inventory", column |-> "tenant_id", mode |-> "direct"],
       [table |-> "sell_local_menu_schedule", column |-> "tenant_id", mode |-> "direct"],
       [table |-> "sell_local_categories", column |-> "tenant_id", mode |-> "direct"],
       [table |-> "sell_local_products", column |-> "tenant_id", mode |-> "direct"],
       [table |-> "sell_local_settings", column |-> "tenant_id", mode |-> "direct"],
       [table |-> "sell_local_store_settings", column |-> "tenant_id", mode |-> "direct"],
       [table |-> "sell_local_affiliate_links", column |-> "tenant_id", mode |-> "direct"],
       [table |-> "sell_local_social_links", column |-> "tenant_id", mode |-> "direct"],
       [table |-> "sell_local_hero_content", column |-> "tenant_id", mode |-> "direct"],
       [table |-> "sell_local_about_content", column |-> "tenant_id", mode |-> "direct"],
       [table |-> "sell_local_branding", column |-> "tenant_id", mode |-> "direct"],
       [table |-> "sell_local_site_theme", column |-> "tenant_id", mode |-> "direct"],
       [table |-> "sell_local_notification_banner", column |-> "tenant_id", mode |-> "direct"],
       [table |-> "sell_local_tenants", column |-> "id", mode |-> "direct"],
       [table |-> "sell_local_audit_log", column |-> "tenant_id", mode |-> "direct"] >>

TABLES_TO_DELETE ==
    << [table |-> "sell_local_newsletter_sends", column |-> "subscriber_id", mode |-> "via_subscribers"],
       [table |-> "sell_local_newsletter_subscribers", column |-> "tenant_id", mode |-> "direct"],
       [table |-> "sell_local_pickup_products", column |-> "pickup_id", mode |-> "via_pickups"],
       [table |-> "sell_local_pending_orders", column |-> "tenant_id", mode |-> "direct"],
       [table |-> "sell_local_orders", column |-> "tenant_id", mode |-> "direct"],
       [table |-> "sell_local_pickups", column |-> "tenant_id", mode |-> "direct"],
       [table |-> "sell_local_recipe_purchases", column |-> "tenant_id", mode |-> "direct"],
       [table |-> "sell_local_recipes", column |-> "tenant_id", mode |-> "direct"],
       [table |-> "sell_local_menu_inventory", column |-> "tenant_id", mode |-> "direct"],
       [table |-> "sell_local_menu_schedule", column |-> "tenant_id", mode |-> "direct"],
       [table |-> "sell_local_categories", column |-> "tenant_id", mode |-> "direct"],
       [table |-> "sell_local_products", column |-> "tenant_id", mode |-> "direct"],
       [table |-> "sell_local_settings", column |-> "tenant_id", mode |-> "direct"],
       [table |-> "sell_local_store_settings", column |-> "tenant_id", mode |-> "direct"],
       [table |-> "sell_local_affiliate_links", column |-> "tenant_id", mode |-> "direct"],
       [table |-> "sell_local_social_links", column |-> "tenant_id", mode |-> "direct"],
       [table |-> "sell_local_hero_content", column |-> "tenant_id", mode |-> "direct"],
       [table |-> "sell_local_about_content", column |-> "tenant_id", mode |-> "direct"],
       [table |-> "sell_local_branding", column |-> "tenant_id", mode |-> "direct"],
       [table |-> "sell_local_site_theme", column |-> "tenant_id", mode |-> "direct"],
       [table |-> "sell_local_notification_banner", column |-> "tenant_id", mode |-> "direct"],
       [table |-> "sell_local_audit_log", column |-> "tenant_id", mode |-> "direct"],
       [table |-> "sell_local_tenants", column |-> "id", mode |-> "direct"] >>

TenantTable == "sell_local_tenants"
RetentionTable == "sell_local_deleted_tenants"
SubscriberTable == "sell_local_newsletter_subscribers"
PickupTable == "sell_local_pickups"

\* The tables of the schema that hold rows of a tenant.
TableNames ==
    { "sell_local_newsletter_sends", "sell_local_newsletter_subscribers",
      "sell_local_pickup_products", "sell_local_pending_orders",
      "sell_local_orders", "sell_local_pickups",
      "sell_local_recipe_purchases", "sell_local_recipes",
      "sell_local_menu_inventory", "sell_local_menu_schedule",
      "sell_local_categories", "sell_local_products", "sell_local_settings",
      "sell_local_store_settings", "sell_local_affiliate_links",
      "sell_local_social_links", "sell_local_hero_content",
      "sell_local_about_content", "sell_local_branding",
      "sell_local_site_theme", "sell_local_notification_banner",
      "sell_local_audit_log", "sell_local_tenants" }

DependentTables == TableNames \ {TenantTable}

\* (child, parent): the child's rows reference the parent's rows.
DependencyPairs ==
    { <<"sell_local_newsletter_sends", "sell_local_newsletter_subscribers">>,
      <<"sell_local_pickup_products", "sell_local_pickups">>,
      <<"sell_local_recipe_purchases", "sell_local_recipes">>,
      <<"sell_local_pickup_products", "sell_local_products">>,
      <<"sell_local_menu_inventory", "sell_local_products">>,
      <<"sell_local_categories", "sell_local_products">> }
    \cup { <<t, TenantTable>> : t \in DependentTables }

\* main() with the archival called after the domain removal.
MainStepsArchiveLate == <<"domain", "archive", "storage", "records", "auth">>

\* main() with the identity deletion called before the record deletion.
MainStepsAuthEarly == <<"archive", "domain", "storage", "auth", "records">>

\* The steps main() runs after the confirmation, in order.
MainSteps == <<"archive", "domain", "storage", "records", "auth">>

StepAfter(s) ==
    IF \E k \in 1..(Len(MainSteps) - 1) : MainSteps[k] = s
    THEN MainSteps[(CHOOSE k \in 1..(Len(MainSteps) - 1) : MainSteps[k] = s) + 1]
    ELSE "done"

OwnerEmail == "owner@example.com"
Emails == {OwnerEmail, "nobody@example.com"}
ConfirmInputs == {"DELETE", "delete", ""}

None == [id |-> "", owner_email |-> "", domain |-> FALSE, user_id |-> FALSE]
NoArgs == [email |-> "", dry_run |-> FALSE, force |-> FALSE]

----------------------------------------------------------------------------
(* Trace entries *)

Entry(op, target, res, n) == [op |-> op, target |-> target, res |-> res, n |-> n]

WriteOps == {"insert", "domain_delete", "storage_remove", "delete", "auth_delete"}
DestructiveOps == WriteOps \ {"insert"}

World == [db |-> db, retention |-> retention, domainBound |-> domainBound,
          files |-> files, identity |-> identity]

Ended == pc \in {"done", "exited", "aborted"}

\* An exception that nothing catches ends the process with a traceback.
Raise(tr) ==
    /\ trace' = tr
    /\ pc' = "aborted"
    /\ exit' = 1

----------------------------------------------------------------------------
(* Initial states *)

\* Rows that reference a subscriber or a pickup exist only with that row.
Close(S) ==
    S \cup (IF "sell_local_newsletter_sends" \in S THEN {SubscriberTable} ELSE {})
      \cup (IF "sell_local_pickup_products" \in S THEN {PickupTable} ELSE {})

PopulatedChoices ==
    { Close(S) : S \in {{}} \cup { {t} : t \in DependentTables }
                          \cup { {p[1], p[2]} : p \in DependencyPairs } }

\* The campaign sender is not running.
SendOff ==
    /\ template_file = << >>
    /\ contacts_file = << >>
    /\ send_dry_run = FALSE
    /\ spc = "off"
    /\ contacts = << >>
    /\ subject = ""
    /\ html_template = << >>
    /\ cursor = 0
    /\ attempts = << >>
    /\ sent = 0
    /\ failed = 0
    /\ sexit = -1

Init ==
    /\ \E S \in PopulatedChoices, n \in 1..MaxRows :
          db = [t \in TableNames |->
                  IF t = TenantTable THEN 1
                  ELSE IF t \in S \ {TenantTable} THEN n ELSE 0]
    /\ retention = 0
    /\ \E d \in BOOLEAN, u \in BOOLEAN :
          /\ tenantRow = [id |-> "t1", owner_email |-> OwnerEmail,
                          domain |-> d, user_id |-> u]
          /\ domainBound \in (IF d THEN BOOLEAN ELSE {FALSE})
          /\ identity = u
    /\ creds \in BOOLEAN
    /\ files \in 0..MaxFiles
    /\ pc = "idle"
    /\ args = NoArgs
    /\ tenant = None
    /\ subscriber_ids = 0
    /\ pickup_ids = 0
    /\ i = 0
    /\ trace = << >>
    /\ exit = -1
    /\ runs = 1
    /\ world0 = World
    /\ prev = "none"
    /\ SendOff

----------------------------------------------------------------------------
(* Helpers of the script *)

\* count_rows: the exact count of rows with column = tenant id.
count_rows(table) == db[table]

\* count_rows_in: 0 without a call when the id list is empty.
count_rows_in(table, values) == IF values = 0 THEN 0 ELSE db[table]

\* Whether computing the count of an entry issues a read to the store.
IssuesCount(mode, value) == mode = "direct" \/ value > 0

\* _delete_rows: whether a delete call is issued for the entry.
IssuesDelete(mode, value) ==
    \/ mode = "direct"
    \/ mode \in {"via_subscribers", "via_pickups"} /\ value > 0

\* A bulk delete that is built but never executed leaves the rows.
RowsKept(table) == db

\* The store after a bulk delete of the tenant's rows of one table.
RowsAfterDelete(table) == [db EXCEPT ![table] = 0]

\* lookup_tenant: the first row with owner_email = email, or None.
lookup_tenant(email) ==
    IF db[TenantTable] > 0 /\ tenantRow.owner_email = email
    THEN tenantRow ELSE None

Advance(s) ==
    /\ pc' = StepAfter(s)
    /\ exit' = IF StepAfter(s) = "done" THEN 0 ELSE exit

----------------------------------------------------------------------------
(* main *)

Start ==
    /\ pc = "idle"
    /\ \E e \in Emails, d \in BOOLEAN, f \in BOOLEAN :
          args' = [email |-> e, dry_run |-> d, force |-> f]
    /\ pc' = "lookup"
    /\ world0' = World
    /\ UNCHANGED <<worldVars, envVars, sendVars, loopVars, tenant, trace, exit, runs, prev>>

\* main() without the check of the lookup's result.
LookupNoExit ==
    /\ pc = "lookup"
    /\ \/ /\ Raise(Append(trace, Entry("lookup", TenantTable, "raise", 0)))
          /\ UNCHANGED tenant
       \/ /\ tenant' = lookup_tenant(args.email)
          /\ trace' = Append(trace, Entry("lookup", TenantTable,
                         IF lookup_tenant(args.email) = None THEN "notfound" ELSE "ok",
                         IF lookup_tenant(args.email) = None THEN 0 ELSE 1))
          /\ pc' = IF ~args.force /\ ~args.dry_run THEN "confirm" ELSE MainSteps[1]
          /\ UNCHANGED exit
    /\ UNCHANGED <<worldVars, envVars, sendVars, loopVars, args, runs, world0, prev>>

Lookup ==
    /\ pc = "lookup"
    /\ \/ /\ Raise(Append(trace, Entry("lookup", TenantTable, "raise", 0)))
          /\ UNCHANGED tenant
       \/ /\ lookup_tenant(args.email) = None
          /\ trace' = Append(trace, Entry("lookup", TenantTable, "notfound", 0))
          /\ pc' = "exited"
          /\ exit' = 1
          /\ UNCHANGED tenant
       \/ /\ lookup_tenant(args.email) /= None
          /\ tenant' = lookup_tenant(args.email)
          /\ trace' = Append(trace, Entry("lookup", TenantTable, "ok", 1))
          /\ pc' = IF ~args.force /\ ~args.dry_run THEN "confirm" ELSE MainSteps[1]
          /\ UNCHANGED exit
    /\ UNCHANGED <<worldVars, envVars, sendVars, loopVars, args, runs, world0, prev>>

\* main() comparing the confirmation without regard to case.
ConfirmAnyCase ==
    /\ pc = "confirm"
    /\ \E confirm \in ConfirmInputs :
          /\ trace' = Append(trace, Entry("prompt", confirm, "ok", 0))
          /\ IF confirm \notin {"DELETE", "delete"}
             THEN pc' = "exited" /\ exit' = 0
             ELSE pc' = MainSteps[1] /\ UNCHANGED exit
    /\ UNCHANGED <<worldVars, envVars, sendVars, loopVars, args, tenant, runs, world0, prev>>

Confirm ==
    /\ pc = "confirm"
    /\ \E confirm \in ConfirmInputs :
          /\ trace' = Append(trace, Entry("prompt", confirm, "ok", 0))
          /\ IF confirm /= "DELETE"
             THEN pc' = "exited" /\ exit' = 0
             ELSE pc' = MainSteps[1] /\ UNCHANGED exit
    /\ UNCHANGED <<worldVars, envVars, sendVars, loopVars, args, tenant, runs, world0, prev>>

----------------------------------------------------------------------------
(* Step 2: archive_tenant *)

\* archive_tenant without the dry-run return.
ArchiveTenantAlways ==
    /\ pc = "archive"
    /\ \/ /\ retention' = retention + 1
          /\ trace' = Append(trace, Entry("insert", RetentionTable, "ok", 1))
          /\ Advance("archive")
       \/ /\ Raise(Append(trace, Entry("insert", RetentionTable, "raise", 0)))
          /\ UNCHANGED retention
    /\ UNCHANGED <<db, domainBound, files, identity, envVars, sendVars, loopVars, args,
                   tenant, runs, world0, prev>>

\* archive_tenant with the insert wrapped in a try/except that only logs.
ArchiveTenantSwallow ==
    /\ pc = "archive"
    /\ Advance("archive")
    /\ IF args.dry_run
       THEN UNCHANGED <<retention, trace>>
       ELSE \/ /\ retention' = retention + 1
               /\ trace' = Append(trace, Entry("insert", RetentionTable, "ok", 1))
            \/ /\ trace' = Append(trace, Entry("insert", RetentionTable, "raise", 0))
               /\ UNCHANGED retention
    /\ UNCHANGED <<db, domainBound, files, identity, envVars, sendVars, loopVars, args,
                   tenant, runs, world0, prev>>

ArchiveTenant ==
    /\ pc = "archive"
    /\ IF args.dry_run
       THEN /\ Advance("archive")
            /\ UNCHANGED <<retention, trace>>
       ELSE \/ /\ retention' = retention + 1
               /\ trace' = Append(trace, Entry("insert", RetentionTable, "ok", 1))
               /\ Advance("archive")
            \/ /\ Raise(Append(trace, Entry("insert", RetentionTable, "raise", 0)))
               /\ UNCHANGED retention
    /\ UNCHANGED <<db, domainBound, files, identity, envVars, sendVars, loopVars, args,
                   tenant, runs, world0, prev>>

----------------------------------------------------------------------------
(* Step 3: remove_vercel_domain *)

RemoveVercelDomain ==
    /\ pc = "domain"
    /\ IF ~tenant.domain \/ ~creds \/ args.dry_run
       THEN /\ Advance("domain")
            /\ UNCHANGED <<domainBound, trace>>
       ELSE \/ /\ domainBound
               /\ domainBound' = FALSE
               /\ trace' = Append(trace, Entry("domain_delete", "domain", "ok", 0))
               /\ Advance("domain")
            \/ /\ ~domainBound
               /\ trace' = Append(trace, Entry("domain_delete", "domain", "notfound", 0))
               /\ Advance("domain")
               /\ UNCHANGED domainBound
            \/ /\ trace' = Append(trace, Entry("domain_delete", "domain", "error", 0))
               /\ Advance("domain")
               /\ UNCHANGED domainBound
            \/ /\ Raise(Append(trace, Entry("domain_delete", "domain", "raise", 0)))
               /\ UNCHANGED domainBound
    /\ UNCHANGED <<db, retention, files, identity, envVars, sendVars, loopVars, args,
                   tenant, runs, world0, prev>>

----------------------------------------------------------------------------
(* Step 4: delete_storage_files *)

DeleteStorageFiles ==
    /\ pc = "storage"
    /\ Advance("storage")
    /\ \/ /\ trace' = Append(trace, Entry("storage_list", "images", "raise", 0))
          /\ UNCHANGED files
       \/ /\ files = 0 \/ args.dry_run
          /\ trace' = Append(trace, Entry("storage_list", "images", "ok", files))
          /\ UNCHANGED files
       \/ /\ files > 0 /\ ~args.dry_run
          /\ \/ /\ files' = 0
                /\ trace' = trace \o << Entry("storage_list", "images", "ok", files),
                                        Entry("storage_remove", "images", "ok", files) >>
             \/ /\ UNCHANGED files
                /\ trace' = trace \o << Entry("storage_list", "images", "ok", files),
                                        Entry("storage_remove", "images", "raise", files) >>
    /\ UNCHANGED <<db, retention, domainBound, identity, envVars, sendVars, loopVars,
                   args, tenant, runs, world0, prev>>

----------------------------------------------------------------------------
(* Step 5: delete_database_records *)

FetchIds ==
    /\ pc = "records"
    /\ i = 0
    /\ \/ /\ Raise(Append(trace, Entry("get_ids", SubscriberTable, "raise", 0)))
          /\ UNCHANGED loopVars
       \/ /\ Raise(trace \o << Entry("get_ids", SubscriberTable, "ok", db[SubscriberTable]),
                               Entry("get_ids", PickupTable, "raise", 0) >>)
          /\ UNCHANGED loopVars
       \/ /\ subscriber_ids' = db[SubscriberTable]
          /\ pickup_ids' = db[PickupTable]
          /\ i' = 1
          /\ trace' = trace \o << Entry("get_ids", SubscriberTable, "ok", db[SubscriberTable]),
                                  Entry("get_ids", PickupTable, "ok", db[PickupTable]) >>
          /\ UNCHANGED <<pc, exit>>
    /\ UNCHANGED <<worldVars, envVars, sendVars, args, tenant, runs, world0, prev>>

\* The loop with each iteration wrapped in a try/except that only logs.
DeleteTableContinue ==
    /\ pc = "records"
    /\ i \in 1..Len(TABLES_TO_DELETE)
    /\ LET e == TABLES_TO_DELETE[i]
           value == IF e.mode = "via_subscribers" THEN subscriber_ids
                    ELSE IF e.mode = "via_pickups" THEN pickup_ids
                    ELSE 1
           count == IF e.mode = "direct" THEN count_rows(e.table)
                    ELSE count_rows_in(e.table, value)
           counted == IF IssuesCount(e.mode, value)
                      THEN Append(trace, Entry("count", e.table, "ok", count))
                      ELSE trace
           next == /\ i' = IF i = Len(TABLES_TO_DELETE) THEN 0 ELSE i + 1
                   /\ IF i = Len(TABLES_TO_DELETE)
                      THEN Advance("records")
                      ELSE UNCHANGED <<pc, exit>>
       IN
       \/ /\ IssuesCount(e.mode, value)
          /\ trace' = Append(trace, Entry("count", e.table, "raise", 0))
          /\ next
          /\ UNCHANGED db
       \/ /\ count = 0
          /\ trace' = Append(counted, Entry("skip", e.table, "ok", 0))
          /\ next
          /\ UNCHANGED db
       \/ /\ count /= 0
          /\ args.dry_run
          /\ trace' = Append(counted, Entry("would_delete", e.table, "ok", count))
          /\ next
          /\ UNCHANGED db
       \/ /\ count /= 0
          /\ ~args.dry_run
          /\ IF IssuesDelete(e.mode, value)
             THEN \/ /\ db' = RowsAfterDelete(e.table)
                     /\ trace' = Append(counted, Entry("delete", e.table, "ok", count))
                     /\ next
                  \/ /\ trace' = Append(counted, Entry("delete", e.table, "raise", 0))
                     /\ next
                     /\ UNCHANGED db
             ELSE /\ trace' = counted
                  /\ next
                  /\ UNCHANGED db
    /\ UNCHANGED <<retention, domainBound, files, identity, envVars, sendVars,
                   subscriber_ids, pickup_ids, args, tenant, runs, world0, prev>>

\* One iteration of the loop over TABLES_TO_DELETE.
DeleteTable ==
    /\ pc = "records"
    /\ i \in 1..Len(TABLES_TO_DELETE)
    /\ LET e == TABLES_TO_DELETE[i]
           value == IF e.mode = "via_subscribers" THEN subscriber_ids
                    ELSE IF e.mode = "via_pickups" THEN pickup_ids
                    ELSE 1
           count == IF e.mode = "direct" THEN count_rows(e.table)
                    ELSE count_rows_in(e.table, value)
           counted == IF IssuesCount(e.mode, value)
                      THEN Append(trace, Entry("count", e.table, "ok", count))
                      ELSE trace
           next == /\ i' = IF i = Len(TABLES_TO_DELETE) THEN 0 ELSE i + 1
                   /\ IF i = Len(TABLES_TO_DELETE)
                      THEN Advance("records")
                      ELSE UNCHANGED <<pc, exit>>
       IN
       \/ /\ IssuesCount(e.mode, value)
          /\ Raise(Append(trace, Entry("count", e.table, "raise", 0)))
          /\ UNCHANGED <<db, i>>
       \/ /\ count = 0
          /\ trace' = Append(counted, Entry("skip", e.table, "ok", 0))
          /\ next
          /\ UNCHANGED db
       \/ /\ count /= 0
          /\ args.dry_run
          /\ trace' = Append(counted, Entry("would_delete", e.table, "ok", count))
          /\ next
          /\ UNCHANGED db
       \/ /\ count /= 0
          /\ ~args.dry_run
          /\ IF IssuesDelete(e.mode, value)
             THEN \/ /\ db' = RowsAfterDelete(e.table)
                     /\ trace' = Append(counted, Entry("delete", e.table, "ok", count))
                     /\ next
                  \/ /\ Raise(Append(counted, Entry("delete", e.table, "raise", 0)))
                     /\ UNCHANGED <<db, i>>
             ELSE /\ trace' = counted
                  /\ next
                  /\ UNCHANGED db
    /\ UNCHANGED <<retention, domainBound, files, identity, envVars, sendVars,
                   subscriber_ids, pickup_ids, args, tenant, runs, world0, prev>>

----------------------------------------------------------------------------
(* Step 6: delete_auth_user *)

DeleteAuthUser ==
    /\ pc = "auth"
    /\ Advance("auth")
    /\ IF ~tenant.user_id \/ args.dry_run
       THEN UNCHANGED <<identity, trace>>
       ELSE \/ /\ identity
               /\ identity' = FALSE
               /\ trace' = Append(trace, Entry("auth_delete", "user", "ok", 0))
            \/ /\ trace' = Append(trace, Entry("auth_delete", "user", "raise", 0))
               /\ UNCHANGED identity
    /\ UNCHANGED <<db, retention, domainBound, files, envVars, sendVars, loopVars, args,
                   tenant, runs, world0, prev>>

----------------------------------------------------------------------------
(* A later invocation of the script against the same backend *)

Rerun ==
    /\ Ended
    /\ runs < MaxRuns
    /\ runs' = runs + 1
    /\ prev' = IF pc = "done" /\ ~args.dry_run THEN "completed"
               ELSE IF /\ pc = "aborted"
                       /\ ~args.dry_run
                       /\ trace[Len(trace)].op \in {"get_ids", "count", "delete"}
                    THEN "failed_in_records"
                    ELSE "other"
    /\ pc' = "idle"
    /\ args' = NoArgs
    /\ tenant' = None
    /\ subscriber_ids' = 0
    /\ pickup_ids' = 0
    /\ i' = 0
    /\ trace' = << >>
    /\ exit' = -1
    /\ world0' = World
    /\ UNCHANGED <<worldVars, envVars, sendVars>>

Next ==
    \/ Start
    \/ Lookup
    \/ Confirm
    \/ ArchiveTenant
    \/ RemoveVercelDomain
    \/ DeleteStorageFiles
    \/ FetchIds
    \/ DeleteTable
    \/ DeleteAuthUser

\* One invocation of the script, for every tenant of the initial states.
Spec == Init /\ [][Next]_vars

\* Tenants with a domain and a linked user whose populated tables are the
\* two ends of a dependency pair.
InitRerun ==
    /\ Init
    /\ tenantRow.domain
    /\ tenantRow.user_id
    /\ domainBound
    /\ \/ \A t \in DependentTables : db[t] = 0
       \/ \E p \in DependencyPairs :
             /\ p[2] /= TenantTable
             /\ \A t \in DependentTables : db[t] > 0 <=> t \in Close({p[1], p[2]})

NextRerun ==
    \/ Next
    \/ Rerun

\* Up to MaxRuns invocations, one after the other, against the same backend.
SpecRerun == InitRerun /\ [][NextRerun]_vars

----------------------------------------------------------------------------
(* emails/send.py: the campaign sender *)

deleteVars == <<worldVars, envVars, loopVars, pc, args, tenant, trace, exit,
                runs, world0, prev>>

\* The tokens a template is made of.
SubjectMarker == "<!--subject: Hello -->"
TemplateTokens == {SubjectMarker, "<p>Hi</p>", "{{name}}", "{{missing}}"}

\* The header of contacts.csv, in file order.
Columns == <<"email", "name", "slug">>

\* The values of the name column.
NameValues == {"Ann", ""}

ContactRows ==
    { [email |-> "ann@example.com ", name |-> v, slug |-> "ann-shop"] : v \in NameValues }

SeqsUpTo(S, m) == UNION { [1..k -> S] : k \in 0..m }

\* What can keep send_campaign from reaching the files.
SetupProblems == {"ok", "no_api_key", "no_from_email", "no_campaign",
                  "no_template", "no_contacts"}

\* str.strip of an email cell.
Strip(v) == IF v = "ann@example.com " THEN "ann@example.com" ELSE v

\* load_contacts: the rows of the file with the email cell stripped.
load_contacts(rows) ==
    [k \in DOMAIN rows |-> [rows[k] EXCEPT !.email = Strip(rows[k].email)]]

\* A search for the marker anywhere in the content.
SearchSubject(content) ==
    \E k \in DOMAIN content : content[k] = SubjectMarker

\* load_template's re.match: the marker at the very start of the content.
MatchSubject(content) ==
    content /= << >> /\ content[1] = SubjectMarker

\* The text written as {{key}} in a template.
PlaceholderOf(col) ==
    CASE col = "email" -> "{{email}}"
      [] col = "name" -> "{{name}}"
      [] col = "slug" -> "{{slug}}"

\* A cell as text: `value or ""`.
TextOf(v) == IF v = "" THEN << >> ELSE << v >>

\* str.replace on a tokenised text.
RECURSIVE Replace(_, _, _)
Replace(html, old, new) ==
    IF html = << >> THEN << >>
    ELSE (IF Head(html) = old THEN new ELSE << Head(html) >>)
         \o Replace(Tail(html), old, new)

\* The loop over contact.items(), from column k on.
RECURSIVE RenderFrom(_, _, _)
RenderFrom(html, contact, k) ==
    IF k > Len(Columns) THEN html
    ELSE RenderFrom(Replace(html, PlaceholderOf(Columns[k]), TextOf(contact[Columns[k]])),
                    contact, k + 1)

Render(html, contact) == RenderFrom(html, contact, 1)

InitSend ==
    /\ db = [t \in TableNames |-> 0]
    /\ retention = 0
    /\ domainBound = FALSE
    /\ files = 0
    /\ identity = FALSE
    /\ tenantRow = None
    /\ creds = FALSE
    /\ pc = "off"
    /\ args = NoArgs
    /\ tenant = None
    /\ subscriber_ids = 0
    /\ pickup_ids = 0
    /\ i = 0
    /\ trace = << >>
    /\ exit = -1
    /\ runs = 1
    /\ world0 = World
    /\ prev = "none"
    /\ template_file \in SeqsUpTo(TemplateTokens, MaxTemplateLen)
    /\ contacts_file \in SeqsUpTo(ContactRows, MaxContacts)
    /\ send_dry_run \in BOOLEAN
    /\ spc = "start"
    /\ contacts = << >>
    /\ subject = ""
    /\ html_template = << >>
    /\ cursor = 0
    /\ attempts = << >>
    /\ sent = 0
    /\ failed = 0
    /\ sexit = -1

\* The checks of the API key, the sender address, the campaign folder and
\* its two files.
SendSetup ==
    /\ spc = "start"
    /\ \E problem \in SetupProblems :
          IF problem /= "ok"
          THEN spc' = "exited" /\ sexit' = 1
          ELSE spc' = "load" /\ UNCHANGED sexit
    /\ UNCHANGED <<deleteVars, template_file, contacts_file, send_dry_run,
                   contacts, subject, html_template, cursor, attempts, sent,
                   failed>>

\* load_contacts, then load_template.
LoadFiles ==
    /\ spc = "load"
    /\ contacts' = load_contacts(contacts_file)
    /\ IF ~MatchSubject(template_file)
       THEN /\ spc' = "exited"
            /\ sexit' = 1
            /\ UNCHANGED <<subject, html_template, cursor>>
       ELSE /\ subject' = "Hello"
            /\ html_template' = Tail(template_file)
            /\ cursor' = 1
            /\ spc' = "loop"
            /\ UNCHANGED sexit
    /\ UNCHANGED <<deleteVars, template_file, contacts_file, send_dry_run,
                   attempts, sent, failed>>

\* One iteration of the loop over contacts.
SendOne ==
    /\ spc = "loop"
    /\ cursor \in 1..Len(contacts)
    /\ LET contact == contacts[cursor]
           html == Render(html_template, contact)
           mail(res) == [to |-> contact.email, subject |-> subject,
                         html |-> html, res |-> res]
       IN IF send_dry_run
          THEN /\ attempts' = Append(attempts, mail("dry"))
               /\ sent' = sent + 1
               /\ UNCHANGED failed
          ELSE \/ /\ attempts' = Append(attempts, mail("ok"))
                  /\ sent' = sent + 1
                  /\ UNCHANGED failed
               \/ /\ attempts' = Append(attempts, mail("raise"))
                  /\ failed' = failed + 1
                  /\ UNCHANGED sent
    /\ cursor' = cursor + 1
    /\ UNCHANGED <<deleteVars, template_file, contacts_file, send_dry_run,
                   spc, contacts, subject, html_template, sexit>>

SendDone ==
    /\ spc = "loop"
    /\ cursor > Len(contacts)
    /\ spc' = "done"
    /\ sexit' = 0
    /\ UNCHANGED <<deleteVars, template_file, contacts_file, send_dry_run,
                   contacts, subject, html_template, cursor, attempts, sent,
                   failed>>

NextSend ==
    \/ SendSetup
    \/ LoadFiles
    \/ SendOne
    \/ SendDone

\* One call of send_campaign, for every template and contact list.
SpecSend == InitSend /\ [][NextSend]_vars

----------------------------------------------------------------------------
(* Properties *)

Has(op, target) ==
    \E k \in DOMAIN trace : trace[k].op = op /\ trace[k].target = target

DeletePos == { k \in DOMAIN trace : trace[k].op = "delete" }

Last(s) == s[Len(s)]

\* C1: in a non-dry-run run, for every dependency pair (child, parent) a
\* delete call on the child table is never issued after a delete call on
\* the parent table; the tenant table is the parent of every other table.
C1_ChildrenBeforeParents ==
    ~args.dry_run =>
        \A j \in DeletePos, k \in DeletePos :
            <<trace[k].target, trace[j].target>> \in DependencyPairs => k < j

\* A run that has deleted from both tables of a pair of dependent tables.
C1_Witness ==
    /\ ~args.dry_run
    /\ \E p \in DependencyPairs :
          /\ p[2] /= TenantTable
          /\ Has("delete", p[1])
          /\ Has("delete", p[2])
    /\ Has("delete", TenantTable)

\* C2: a dry run issues no write or delete call and leaves the store, the
\* routing service, object storage and the identity provider as they were;
\* when it completes it has issued the tenant lookup, the storage listing,
\* both id fetches and the count read of every table (for a table resolved
\* through subscriber or pickup ids, when the fetched id list is not empty:
\* with an empty list the count is 0 without a read).
C2_DryRunOnlyReads ==
    args.dry_run =>
        /\ \A k \in DOMAIN trace : trace[k].op \notin WriteOps
        /\ World = world0
        /\ pc = "done" =>
              /\ Has("lookup", TenantTable)
              /\ Has("storage_list", "images")
              /\ Has("get_ids", SubscriberTable)
              /\ Has("get_ids", PickupTable)
              /\ \A k \in DOMAIN TABLES_TO_DELETE :
                    LET e == TABLES_TO_DELETE[k] IN
                    \/ e.mode = "via_subscribers" /\ world0.db[SubscriberTable] = 0
                    \/ e.mode = "via_pickups" /\ world0.db[PickupTable] = 0
                    \/ Has("count", e.table)

\* A completed dry run over a tenant with a bound domain, credentials,
\* files, a linked user and rows that a real run would delete.
C2_Witness ==
    /\ args.dry_run
    /\ pc = "done"
    /\ tenant.domain /\ creds /\ domainBound
    /\ files > 0
    /\ tenant.user_id
    /\ \E t \in DependentTables : Has("would_delete", t)

\* C3: in a non-dry-run run a destructive call (domain delete, storage
\* remove, table delete, identity delete) is issued only after the
\* retention insert of this run has succeeded, and the tenant row is never
\* absent while no retention record exists.
C3_ArchiveBeforeDestruction ==
    /\ \A k \in DOMAIN trace :
          trace[k].op \in DestructiveOps =>
             /\ retention >= 1
             /\ \E j \in 1..(k - 1) : trace[j].op = "insert" /\ trace[j].res = "ok"
    /\ db[TenantTable] = 0 => retention >= 1

\* A run that has removed the tenant row.
C3_Witness ==
    /\ ~args.dry_run
    /\ db[TenantTable] = 0
    /\ Has("delete", TenantTable)
    /\ retention = 1

\* C4: when the retention insert raises, it is the last call of the
\* invocation: the process ends with a failure status and no domain,
\* storage, table or identity delete follows.
C4_ArchiveFailureAborts ==
    \A k \in DOMAIN trace :
        (trace[k].op = "insert" /\ trace[k].res = "raise") =>
            /\ k = Len(trace)
            /\ pc = "aborted"
            /\ exit = 1
            /\ World = world0

\* A run whose retention insert raised.
C4_Witness ==
    /\ pc = "aborted"
    /\ trace /= << >>
    /\ Last(trace).op = "insert"
    /\ Last(trace).res = "raise"

\* C5: a failure of the domain removal (error response or failed request),
\* of the storage listing or removal, or of the identity deletion never
\* ends the run: the call that ended an aborted run is none of these.
C5_BestEffortNeverFatal ==
    (pc = "aborted" /\ trace /= << >>) =>
        Last(trace).op \notin {"domain_delete", "storage_list",
                               "storage_remove", "auth_delete"}

\* C6 as stated: a second non-dry-run run after a completed one reports
\* zero rows for every table of the list and a not-found outcome for the
\* lookup, and changes no state.
C6_SecondRunReportsEveryTable ==
    (/\ prev = "completed"
     /\ ~args.dry_run
     /\ args.email = OwnerEmail
     /\ pc \in {"done", "exited"}) =>
        /\ \A t \in TableNames : Has("skip", t)
        /\ Has("lookup", TenantTable)
        /\ World = world0

\* C6 as amended: a second non-dry-run run after a completed one finds no
\* tenant row for the email and ends at the lookup with exit status 1; its
\* only call is the lookup, it reports no table and changes no state.
C6_SecondRunNotFound ==
    (/\ prev = "completed"
     /\ ~args.dry_run
     /\ args.email = OwnerEmail
     /\ pc \notin {"idle", "lookup", "aborted"}) =>
        /\ pc = "exited"
        /\ exit = 1
        /\ trace = << Entry("lookup", TenantTable, "notfound", 0) >>
        /\ World = world0

\* The second run, after a completed first run, has ended.
C6_Witness ==
    /\ prev = "completed"
    /\ ~args.dry_run
    /\ args.email = OwnerEmail
    /\ pc = "exited"
    /\ db[TenantTable] = 0

\* C7: when the lookup finds no row for the email, the run ends with exit
\* status 1; the lookup is its only call: no prompt, no insert, no domain,
\* storage, table or identity call, and no state is changed.
C7_NotFoundExits ==
    (trace /= << >> /\ trace[1].op = "lookup" /\ trace[1].res = "notfound") =>
        /\ pc = "exited"
        /\ exit = 1
        /\ Len(trace) = 1
        /\ World = world0

\* A run for an email that no tenant row has, without --force or --dry-run.
C7_Witness ==
    /\ pc = "exited"
    /\ args.email /= OwnerEmail
    /\ ~args.force /\ ~args.dry_run
    /\ trace /= << >>
    /\ trace[1].res = "notfound"

\* C8: once the delete call on the tenant's own row has been issued, every
\* dependent table holds zero rows of the tenant.
C8_TenantRowLast ==
    (~args.dry_run /\ Has("delete", TenantTable)) =>
        \A t \in DependentTables : db[t] = 0

\* The tenant row's delete has been issued for a tenant that had rows in
\* dependent tables, one of them reached through the fetched ids.
C8_Witness ==
    /\ ~args.dry_run
    /\ Has("delete", TenantTable)
    /\ \E t \in DependentTables : world0.db[t] > 0 /\ Has("delete", t)
    /\ \E k \in DOMAIN TABLES_TO_DELETE :
          /\ TABLES_TO_DELETE[k].mode /= "direct"
          /\ Has("delete", TABLES_TO_DELETE[k].table)

\* The calls of the scenario: writes, deletes and the storage listing.
ScenarioCalls ==
    LET Keep(e) == e.op \in WriteOps \cup {"storage_list"}
        kept == SelectSeq(trace, Keep)
    IN [k \in DOMAIN kept |-> <<kept[k].op, kept[k].target>>]

\* The dependent tables that held rows of the tenant when the run started.
NonEmptyDependent == { t \in DependentTables : world0.db[t] > 0 }

\* The scenario's order: insert, domain delete, storage list, storage
\* remove, one delete per non-empty dependent table, the tenant-row delete,
\* the identity delete.
InScenarioOrder(calls) ==
    LET n == Cardinality(NonEmptyDependent) IN
    /\ Len(calls) = n + 6
    /\ calls[1] = <<"insert", RetentionTable>>
    /\ calls[2] = <<"domain_delete", "domain">>
    /\ calls[3] = <<"storage_list", "images">>
    /\ calls[4] = <<"storage_remove", "images">>
    /\ \A k \in 5..(n + 4) : calls[k][1] = "delete"
    /\ { calls[k][2] : k \in 5..(n + 4) } = NonEmptyDependent
    /\ calls[n + 5] = <<"delete", TenantTable>>
    /\ calls[n + 6] = <<"auth_delete", "user">>

\* C9: a completed non-dry-run run for a tenant with a domain, routing
\* credentials, gallery files, dependent rows and a linked user, whose
\* storage listing succeeded, has issued exactly: the retention insert, the
\* domain delete, the storage list, the storage remove, one delete per
\* non-empty dependent table in list order, the tenant-row delete and the
\* identity delete, each once and in this order; the identity delete is
\* the last call of the run.
C9_ScenarioOrder ==
    (/\ pc = "done"
     /\ ~args.dry_run
     /\ tenant.domain /\ creds
     /\ world0.files > 0
     /\ tenant.user_id
     /\ \E t \in DependentTables : world0.db[t] > 0
     /\ ~\E k \in DOMAIN trace : trace[k].op = "storage_list" /\ trace[k].res = "raise") =>
        /\ InScenarioOrder(ScenarioCalls)
        /\ Last(trace).op = "auth_delete"

\* The scenario run has completed with every call successful.
C9_Witness ==
    /\ pc = "done"
    /\ ~args.dry_run
    /\ tenant.domain /\ creds
    /\ world0.files > 0 /\ files = 0
    /\ tenant.user_id /\ ~identity
    /\ ~domainBound
    /\ Cardinality({t \in DependentTables : world0.db[t] > 0}) = 3
    /\ \A t \in TableNames : db[t] = 0
    /\ \A k \in DOMAIN trace : trace[k].res = "ok"

\* C10: the retention record of the tenant is inserted exactly once over
\* any sequence of invocations: in a recovery re-run after a run that failed
\* partway through the table deletions the retention table still holds one
\* record for the tenant.
C10_RetentionInsertedOnce ==
    prev = "failed_in_records" => retention <= 1

\* C11: without --force and --dry-run a write or delete call is issued only
\* after the prompt was answered with exactly DELETE; any other answer ends
\* the invocation with status 0, no write or delete call and no change of
\* state; with --force (or --dry-run) no prompt is made.
C11_ConfirmationGate ==
    /\ (~args.force /\ ~args.dry_run) =>
          \A k \in DOMAIN trace :
             trace[k].op \in WriteOps =>
                \E j \in 1..(k - 1) :
                   trace[j].op = "prompt" /\ trace[j].target = "DELETE"
    /\ \A k \in DOMAIN trace :
          (trace[k].op = "prompt" /\ trace[k].target /= "DELETE") =>
             /\ k = Len(trace)
             /\ pc = "exited"
             /\ exit = 0
             /\ World = world0
             /\ \A j \in DOMAIN trace : trace[j].op \notin WriteOps
    /\ (args.force \/ args.dry_run) =>
          \A k \in DOMAIN trace : trace[k].op /= "prompt"

\* A run without --force whose prompt was answered DELETE has deleted the
\* tenant row.
C11_Witness ==
    /\ ~args.force /\ ~args.dry_run
    /\ Has("prompt", "DELETE")
    /\ Has("insert", RetentionTable)
    /\ Has("delete", TenantTable)
    /\ db[TenantTable] = 0

\* The position of a table in TABLES_TO_DELETE.
TableIndex(t) == CHOOSE k \in DOMAIN TABLES_TO_DELETE : TABLES_TO_DELETE[k].table = t

\* C14: a count or delete call that raises on a table during a non-dry-run
\* run is the last call of the run: the tables later in the list keep their
\* rows, the tenant row and the identity are not deleted, and a lookup by
\* the owner email still finds the tenant.  The re-run that follows finds
\* the tenant, issues no delete on a table that is already empty and, when
\* it completes, has reported every such table as skipped.
C14_FailureStopsRun ==
    /\ \A k \in DOMAIN trace :
          (/\ ~args.dry_run
           /\ trace[k].op \in {"count", "delete"}
           /\ trace[k].res = "raise") =>
             /\ k = Len(trace)
             /\ pc = "aborted"
             /\ \A j \in DOMAIN TABLES_TO_DELETE :
                   j > TableIndex(trace[k].target) =>
                      /\ db[TABLES_TO_DELETE[j].table] = world0.db[TABLES_TO_DELETE[j].table]
                      /\ ~Has("delete", TABLES_TO_DELETE[j].table)
             /\ db[TenantTable] = 1
             /\ identity = world0.identity
             /\ \A j \in DOMAIN trace : trace[j].op /= "auth_delete"
             /\ lookup_tenant(OwnerEmail) = tenantRow
    /\ (prev = "failed_in_records" /\ args.email = OwnerEmail /\ ~args.dry_run) =>
          /\ (trace /= << >> /\ trace[1].res /= "raise") => trace[1].res = "ok"
          /\ \A t \in TableNames : world0.db[t] = 0 => ~Has("delete", t)
          /\ pc = "done" => \A t \in TableNames : world0.db[t] = 0 => Has("skip", t)

\* A completed re-run after a run that had deleted the newsletter sends and
\* then failed: the sends are skipped and the subscribers deleted (in the
\* initial states of SpecRerun a tenant with subscribers has sends).
C14_Witness ==
    /\ prev = "failed_in_records"
    /\ ~args.dry_run
    /\ pc = "done"
    /\ Has("skip", "sell_local_newsletter_sends")
    /\ Has("delete", SubscriberTable)
    /\ db[TenantTable] = 0

\* C12: when the template does not begin with the subject marker, no send
\* is attempted for any contact, in dry-run and in real mode, and the
\* sender never passes load_template: it ends with exit status 1.
C12_NoMarkerNoSend ==
    ~(template_file /= << >> /\ template_file[1] = SubjectMarker) =>
        /\ attempts = << >>
        /\ spc \in {"start", "load", "exited"}
        /\ spc = "exited" => sexit = 1

\* The sender has loaded a non-empty contact list and ended at a template
\* whose marker is not at the start.
C12_Witness ==
    /\ spc = "exited"
    /\ contacts /= << >>
    /\ template_file /= << >>
    /\ template_file[1] /= SubjectMarker
    /\ \E k \in DOMAIN template_file : template_file[k] = SubjectMarker

\* The field a placeholder token names.
Placeholders == {"{{email}}", "{{name}}", "{{slug}}", "{{missing}}"}

FieldOf(tok) ==
    CASE tok = "{{email}}" -> "email"
      [] tok = "{{name}}" -> "name"
      [] tok = "{{slug}}" -> "slug"
      [] tok = "{{missing}}" -> "missing"

\* The body the claim describes: every placeholder replaced by the row's
\* value for that column, or by the empty string without such a column.
RECURSIVE Substituted(_, _)
Substituted(html, contact) ==
    IF html = << >> THEN << >>
    ELSE (IF Head(html) \in Placeholders
          THEN (IF FieldOf(Head(html)) \in DOMAIN contact
                THEN TextOf(contact[FieldOf(Head(html))])
                ELSE << >>)
          ELSE << Head(html) >>)
         \o Substituted(Tail(html), contact)

\* C13: the body of every email is the template with each placeholder
\* replaced by the contact's value for that column, and by the empty string
\* when the row has no such column.
C13_PlaceholdersSubstituted ==
    \A k \in DOMAIN attempts :
        attempts[k].html = Substituted(html_template, contacts[k])

TypeOK ==
    /\ db \in [TableNames -> 0..MaxRows]
    /\ retention \in 0..MaxRuns
    /\ files \in 0..MaxFiles
    /\ pc \in {"off", "idle", "lookup", "confirm", "archive", "domain", "storage",
               "records", "auth", "done", "exited", "aborted"}
    /\ exit \in {-1, 0, 1}
    /\ runs \in 1..MaxRuns

====
